---------------------------- MODULE Spec2Model ----------------------------
(***************************************************************************)
(* A model of telemeter/telemeter.py: the JSON normaliser                  *)
(* (Telemeter.from_json), the two fetch helpers (get_telemeter_cookies,    *)
(* get_telemeter_json) and the command line flow (_main) with its cookie   *)
(* cache file.                                                             *)
(*                                                                         *)
(* Python values are modelled as follows.                                  *)
(*   dict   a function whose DOMAIN is the set of keys present             *)
(*   list   a sequence                                                     *)
(*   str    a sequence of one-character strings where the code looks       *)
(*          inside the string (dates, numbers in text), else a TLA+ string *)
(*   int    an integer (Python integers do not overflow)                   *)
(*   float  the exact quotient [num, den]; rounding of the binary          *)
(*          floating point representation is not modelled                  *)
(* A call either returns or raises: Return(v) / Raise(exc, arg).           *)
(***************************************************************************)
EXTENDS Integers, Sequences, FiniteSets, TLC

-----------------------------------------------------------------------------
(* Bounds of the model *)

\* longest dailyusages array of an input payload
MaxDays == 2
\* longest usages array of an input payload
MaxUsages == 2
\* number of invocations of _main in one behaviour
MaxRuns == 2
\* number of failing calls compared with each other
MaxFailures == 2

-----------------------------------------------------------------------------
(* Outcomes of a call *)

Return(v) == [kind |-> "return", value |-> v]

Raise(exc, arg) == [kind |-> "raise", exc |-> exc, arg |-> arg]

Returned(r) == r.kind = "return"

Raised(r, exc) == r.kind = "raise" /\ r.exc = exc

-----------------------------------------------------------------------------
(* Strings as sequences of characters *)

Digits == <<"0", "1", "2", "3", "4", "5", "6", "7", "8", "9">>

IsDigit(c) == \E i \in 1..10 : Digits[i] = c

DigitVal(c) == (CHOOSE i \in 1..10 : Digits[i] = c) - 1

AllDigits(s) == \A i \in 1..Len(s) : IsDigit(s[i])

RECURSIVE ToNat(_)
\* the value of a non-empty string of decimal digits
ToNat(s) ==
  IF Len(s) = 0 THEN 0
  ELSE 10 * ToNat(SubSeq(s, 1, Len(s) - 1)) + DigitVal(s[Len(s)])

\* str.index(c): the 0-based position of the first c, or -1 where Python
\* raises ValueError
IndexOf(s, c) ==
  IF \E i \in 1..Len(s) : s[i] = c
  THEN (CHOOSE i \in 1..Len(s) :
          s[i] = c /\ \A j \in 1..(i - 1) : s[j] # c) - 1
  ELSE -1

\* s[:k]
Prefix(s, k) == SubSeq(s, 1, k)

IsLeap(y) == (y % 4 = 0 /\ y % 100 # 0) \/ y % 400 = 0

DaysInMonth(y, m) ==
  IF m = 2 THEN (IF IsLeap(y) THEN 29 ELSE 28)
  ELSE IF m \in {4, 6, 9, 11} THEN 30 ELSE 31

\* datetime.strptime(s, "%Y-%m-%d"): %Y is four digits, %m and %d are one or
\* two digits, the whole string must match, and the date must exist.
Strptime(s) ==
  IF Len(s) < 8 \/ ~AllDigits(SubSeq(s, 1, 4)) \/ s[5] # "-"
  THEN Raise("ValueError", "strptime")
  ELSE
    LET rest == SubSeq(s, 6, Len(s))
        dash == IndexOf(rest, "-")
    IN IF dash \notin {1, 2}
       THEN Raise("ValueError", "strptime")
       ELSE
         LET ms == SubSeq(rest, 1, dash)
             ds == SubSeq(rest, dash + 2, Len(rest))
         IN IF ~AllDigits(ms) \/ ~AllDigits(ds) \/ Len(ds) \notin {1, 2}
            THEN Raise("ValueError", "strptime")
            ELSE
              LET y == ToNat(SubSeq(s, 1, 4))
                  m == ToNat(ms)
                  d == ToNat(ds)
              IN IF y < 1 \/ m \notin 1..12 \/ d < 1 \/ d > DaysInMonth(y, m)
                 THEN Raise("ValueError", "strptime")
                 ELSE Return([year |-> y, month |-> m, day |-> d,
                              hour |-> 0, minute |-> 0])

\* datetime.strptime(s[:s.index('T')], "%Y-%m-%d")
ParseStamp(s) ==
  IF IndexOf(s, "T") = -1
  THEN Raise("ValueError", "index")
  ELSE Strptime(Prefix(s, IndexOf(s, "T")))

\* datetime.date()
DateOf(dt) == [year |-> dt.year, month |-> dt.month, day |-> dt.day]

-----------------------------------------------------------------------------
(* Numbers *)

\* the divisor 1E6 of from_json
Million == 1000000

\* x / d of Python on numbers: the exact quotient
Quot(x, d) == [num |-> x, den |-> d]

Has(d, k) == k \in DOMAIN d


-----------------------------------------------------------------------------
(* Telemeter.from_json *)

UsageDay(date, peak_usage, offpeak_usage) ==
  [date |-> date, peak_usage |-> peak_usage, offpeak_usage |-> offpeak_usage]

Telemeter(peak_usage, offpeak_usage, squeezed, max_usage, days, period_start, period_end) ==
  [peak_usage |-> peak_usage, offpeak_usage |-> offpeak_usage,
   squeezed |-> squeezed, max_usage |-> max_usage, days |-> days,
   period_start |-> period_start, period_end |-> period_end]

\* d[k] of a dict: KeyError when the key is absent
Item(d, k) == IF Has(d, k) THEN Return(d[k]) ELSE Raise("KeyError", k)

\* a variant of First that takes l[-1]
FirstTakesLast(l, name) ==
  IF Len(l) > 0 THEN Return(l[Len(l)]) ELSE Raise("IndexError", name)

\* l[0] of a list: IndexError when the list is empty
First(l, name) ==
  IF Len(l) > 0 THEN Return(l[1]) ELSE Raise("IndexError", name)

\* meter_json["internetusage"][0]["availableperiods"][0]["usages"][0]
CurrentUsage(meter_json) ==
  LET a == Item(meter_json, "internetusage") IN
  IF ~Returned(a) THEN a ELSE
  LET b == First(a.value, "internetusage") IN
  IF ~Returned(b) THEN b ELSE
  LET c == Item(b.value, "availableperiods") IN
  IF ~Returned(c) THEN c ELSE
  LET d == First(c.value, "availableperiods") IN
  IF ~Returned(d) THEN d ELSE
  LET e == Item(d.value, "usages") IN
  IF ~Returned(e) THEN e ELSE
  First(e.value, "usages")

\* a variant of ToGB that divides by 1E3
ToGBKilo(x) == Quot(x, 1000)

\* the value / 1E6 of from_json
ToGB(x) == Quot(x, Million)

\* UsageDay(strptime(day["date"][:day["date"].index('T')], ...).date(),
\*          day["peak"] / 1E6, day["offpeak"] / 1E6)
UsageDayOf(day) ==
  IF ~Has(day, "date") THEN Raise("KeyError", "date") ELSE
  LET dt == ParseStamp(day.date) IN
  IF ~Returned(dt) THEN dt ELSE
  IF ~Has(day, "peak") THEN Raise("KeyError", "peak") ELSE
  IF ~Has(day, "offpeak") THEN Raise("KeyError", "offpeak") ELSE
  Return(UsageDay(DateOf(dt.value), ToGB(day.peak), ToGB(day.offpeak)))

RECURSIVE DaysFrom(_, _, _)
\* the loop over enumerate(dailyusages) from entry i on; acc holds the days
\* built so far
DaysFrom(dailyusages, i, acc) ==
  IF i > Len(dailyusages) THEN Return(acc)
  ELSE LET u == UsageDayOf(dailyusages[i]) IN
       IF ~Returned(u) THEN u
       ELSE DaysFrom(dailyusages, i + 1, Append(acc, u.value))

\* a variant of EnumerateDays whose loop starts one entry late
EnumerateDaysSkipFirst(dailyusages) == DaysFrom(dailyusages, 2, <<>>)

EnumerateDays(dailyusages) == DaysFrom(dailyusages, 1, <<>>)

\* current_usage[key] parsed as a period bound
PeriodBound(current_usage, key) ==
  IF ~Has(current_usage, key) THEN Raise("KeyError", key)
  ELSE ParseStamp(current_usage[key])

\* the body of from_json after current_usage is found
FromUsage(current_usage, service_limit) ==
  LET ps == PeriodBound(current_usage, "periodstart") IN
  IF ~Returned(ps) THEN ps ELSE
  LET pe == PeriodBound(current_usage, "periodend") IN
  IF ~Returned(pe) THEN pe ELSE
  IF ~Has(current_usage, "totalusage") THEN Raise("KeyError", "totalusage") ELSE
  LET tu == current_usage.totalusage IN
  IF ~Has(tu, "dailyusages") THEN Raise("KeyError", "dailyusages") ELSE
  LET days == EnumerateDays(tu.dailyusages) IN
  IF ~Returned(days) THEN days ELSE
  IF ~Has(tu, "peak") THEN Raise("KeyError", "peak") ELSE
  IF ~Has(tu, "offpeak") THEN Raise("KeyError", "offpeak") ELSE
  IF ~Has(current_usage, "squeezed") THEN Raise("KeyError", "squeezed") ELSE
  Return(Telemeter(ToGB(tu.peak), ToGB(tu.offpeak), current_usage.squeezed,
                   service_limit, days.value, ps.value, pe.value))

\* the usage entry from_json reads: only a KeyError of the lookup is caught
\* and turned into RuntimeError("Unexpected JSON received")
SelectUsage(meter_json) ==
  LET cu == CurrentUsage(meter_json) IN
  IF Raised(cu, "KeyError")
  THEN Raise("RuntimeError", "Unexpected JSON received")
  ELSE cu

from_json(meter_json, service_limit) ==
  LET cu == SelectUsage(meter_json) IN
  IF ~Returned(cu) THEN cu ELSE FromUsage(cu.value, service_limit)

-----------------------------------------------------------------------------
(* Input payloads of the normaliser *)

\* "T00:00:00.0+01:00"
TimePart ==
  <<"T", "0", "0", ":", "0", "0", ":", "0", "0", ".", "0",
    "+", "0", "1", ":", "0", "0">>

\* "2021-02-01T00:00:00.0+01:00"
Stamp1 == <<"2", "0", "2", "1", "-", "0", "2", "-", "0", "1">> \o TimePart

\* "2021-02-02T00:00:00.0+01:00"
Stamp2 == <<"2", "0", "2", "1", "-", "0", "2", "-", "0", "2">> \o TimePart

\* "2021-03-01T00:00:00.0+01:00"
Stamp3 == <<"2", "0", "2", "1", "-", "0", "3", "-", "0", "1">> \o TimePart

\* "2021-02-30T00:00:00.0+01:00", a day that does not exist
StampNoDay == <<"2", "0", "2", "1", "-", "0", "2", "-", "3", "0">> \o TimePart

\* "2021-02-01", no time part
StampNoT == <<"2", "0", "2", "1", "-", "0", "2", "-", "0", "1">>

\* d without key k
Drop(d, k) == [x \in (DOMAIN d) \ {k} |-> d[x]]

DayFull1 == [date |-> Stamp1, peak |-> 100, offpeak |-> 50]

DayFull2 == [date |-> Stamp2, peak |-> 0, offpeak |-> 2000]

\* a day of a flat-rate plan: no peak/offpeak split
DayFlat == [date |-> Stamp1, includedvolume |-> 70, extendedvolume |-> 5]

DayEntries ==
  { DayFull1, DayFull2, DayFlat,
    Drop(DayFull1, "peak"), Drop(DayFull2, "offpeak"),
    Drop(DayFull1, "date"),
    [date |-> StampNoDay, peak |-> 1, offpeak |-> 1] }

SeqsUpTo(S, n) == UNION { [1..k -> S] : k \in 0..n }

DaySeqs == SeqsUpTo(DayEntries, MaxDays)

UsageEntry(days, peak, squeezed) ==
  [producttype |-> "INTERNET", squeezed |-> squeezed,
   periodstart |-> Stamp1, periodend |-> Stamp3,
   includedvolume |-> 500000000, specurl |-> "spec",
   totalusage |-> [peak |-> peak, offpeak |-> 500, dailyusages |-> days]]

BaseUsage == UsageEntry(<<DayFull1>>, 1000, FALSE)

\* a usage entry of a flat-rate plan: total-usage style fields only
FlatUsage ==
  [BaseUsage EXCEPT !.totalusage =
     [includedvolume |-> 70, extendedvolume |-> 5, dailyusages |-> <<DayFlat>>]]

\* usage entries with one field missing or malformed
BrokenUsages ==
  { Drop(BaseUsage, k) :
      k \in {"producttype", "squeezed", "periodstart", "periodend",
             "specurl", "totalusage"} }
  \cup { [BaseUsage EXCEPT !.totalusage = Drop(BaseUsage.totalusage, k)] :
           k \in {"peak", "offpeak", "dailyusages"} }
  \cup { [BaseUsage EXCEPT !.periodstart = StampNoT],
         [BaseUsage EXCEPT !.periodend = StampNoDay],
         FlatUsage }

FirstUsages ==
  { UsageEntry(d, p, s) : d \in DaySeqs, p \in {0, 1000}, s \in {FALSE} }
  \cup { UsageEntry(<<DayFull2>>, 1000, TRUE) }
  \cup BrokenUsages

\* the entries that may follow the first one in a usages array
OtherUsages ==
  { UsageEntry(<<DayFull2>>, 7, TRUE), Drop(BaseUsage, "totalusage") }

Period(usages) == [start |-> Stamp1, end |-> Stamp3, usages |-> usages]

Wrap(usages) == [internetusage |-> <<[availableperiods |-> <<Period(usages)>>]>>]

\* payloads whose top-level shape is not the expected one
MalformedPayloads ==
  { [error |-> "unavailable"],
    [internetusage |-> <<>>],
    [internetusage |-> <<[businessidentifier |-> "x"]>>],
    [internetusage |-> <<[availableperiods |-> <<>>]>>],
    [internetusage |-> <<[availableperiods |-> <<[start |-> Stamp1]>>]>>],
    Wrap(<<>>) }

ParsePayloads ==
  { Wrap(<<u>> \o t) :
      u \in FirstUsages, t \in SeqsUpTo(OtherUsages, MaxUsages - 1) }
  \cup MalformedPayloads

\* service limits in GB handed to from_json
ServiceLimits == { Quot(150, 1), Quot(150000, 1000) }

-----------------------------------------------------------------------------
(* Observable steps of a call: the requests it sends, what it touches *)

Event(op, arg, res) == [op |-> op, arg |-> arg, res |-> res]

\* a call's outcome together with the steps it made, in order
Call(out, events) == [out |-> out, events |-> events]

\* a call that never comes back
Hang == [kind |-> "hang"]

-----------------------------------------------------------------------------
(* get_telemeter_cookies *)

\* What the login meets: everything works, the provider rejects the
\* credentials, the provider's pages lack an element the code looks for, the
\* network is slow or down, or the local browser driver does not start.
LoginFaults ==
  { "none", "rejected", "no_login_button", "no_login_form", "no_main_marker",
    "net_slow", "net_down", "driver_fails" }

\* the failure cause a fault stands for
FaultCause(fault) ==
  CASE fault = "rejected" -> "credentials"
    [] fault \in {"no_login_button", "no_login_form", "no_main_marker"}
         -> "provider"
    [] fault \in {"net_slow", "net_down"} -> "network"
    [] OTHER -> "local"

TimedOut == Raise("RuntimeError", "Connection timed out")

\* the try block of get_telemeter_cookies, up to the exception it leaves
\* with; session is the cookie jar the browser ends up with
LoginSteps(fault, session) ==
  LET load == Event("page", "mijn.telenet.be", "loaded") IN
  IF fault = "net_down"
    \* driver.get fails with the browser's network error page
    THEN Call(Raise("WebDriverException", "mijn.telenet.be"),
              <<Event("page", "mijn.telenet.be", "failed")>>)
  ELSE IF fault \in {"net_slow", "no_login_button"}
    \* WebDriverWait for the login button: TimeoutException
    THEN Call(TimedOut, <<load>>)
  ELSE IF fault = "no_login_form"
    \* find_element_by_id("j_username")
    THEN Call(Raise("NoSuchElementException", "j_username"), <<load>>)
  ELSE IF fault \in {"rejected", "no_main_marker"}
    \* WebDriverWait for pdPict after the form was sent: TimeoutException
    THEN Call(TimedOut, <<load, Event("submit", "credentials", "sent")>>)
  ELSE Call(Return(session),
            <<load, Event("submit", "credentials", "sent"),
              Event("page", "internetusage", "loaded")>>)

\* a variant of get_telemeter_cookies: the driver is quit only after the
\* last step, not in a finally clause
get_telemeter_cookiesNoFinally(fault, session) ==
  IF fault = "driver_fails"
    THEN Call(Raise("WebDriverException", "firefox"), <<>>)
    ELSE LET t == LoginSteps(fault, session) IN
         Call(t.out,
              <<Event("driver", "firefox", "started")>> \o t.events
                \o (IF Returned(t.out)
                      THEN <<Event("driver", "firefox", "quit")>>
                      ELSE <<>>))

\* get_telemeter_cookies(username, password, timeout, headless): headless
\* only sets MOZ_HEADLESS, timeout is the bound of the two waits
get_telemeter_cookies(fault, session) ==
  IF fault = "driver_fails"
    \* webdriver.Firefox(profile) is outside the try block
    THEN Call(Raise("WebDriverException", "firefox"), <<>>)
    ELSE LET t == LoginSteps(fault, session) IN
         Call(t.out,
              <<Event("driver", "firefox", "started")>> \o t.events
                \o <<Event("driver", "firefox", "quit")>>)

-----------------------------------------------------------------------------
(* get_telemeter_json *)

\* a body that is not JSON
NotJson == [kind |-> "text"]

JsonBody(v) == [kind |-> "json", value |-> v]

\* an answer to a GET: a response, no connection, or no answer at all
Response(status, body) == [net |-> "ok", status |-> status, body |-> body]

NetDown == [net |-> "down"]

NetSilent == [net |-> "silent"]

\* json.loads(text)
Loads(body) ==
  IF body.kind = "json" THEN Return(body.value)
  ELSE Raise("JSONDecodeError", "body")

\* int(s) of a string: its decimal value, ValueError when it is no number
\* (signs, blanks and underscores are not among the inputs)
IntOf(s) ==
  IF Len(s) > 0 /\ AllDigits(s) THEN Return(ToNat(s))
  ELSE Raise("ValueError", "int")

\* the plan's limit in GB: MB divided by 1000, TB multiplied by 1000
ConvertLimit(value, unit) ==
  IF unit = "MB" THEN Quot(value, 1000)
  ELSE IF unit = "TB" THEN Quot(value * 1000, 1)
  ELSE Quot(value, 1)

\* spec_json["product"]["characteristics"]["service_category_limit"], then
\* int(...["value"]) and ...["unit"], then the conversion
ServiceLimit(spec_json) ==
  LET a == Item(spec_json, "product") IN
  IF ~Returned(a) THEN a ELSE
  LET b == Item(a.value, "characteristics") IN
  IF ~Returned(b) THEN b ELSE
  LET c == Item(b.value, "service_category_limit") IN
  IF ~Returned(c) THEN c ELSE
  LET v == Item(c.value, "value") IN
  IF ~Returned(v) THEN v ELSE
  LET n == IntOf(v.value) IN
  IF ~Returned(n) THEN n ELSE
  LET u == Item(c.value, "unit") IN
  IF ~Returned(u) THEN u ELSE
  Return(ConvertLimit(n.value, u.value))

\* the spec URL of the first usage entry
SpecUrl(meter_json) ==
  LET cu == CurrentUsage(meter_json) IN
  IF ~Returned(cu) THEN cu ELSE Item(cu.value, "specurl")

StatusText(r) ==
  IF r.net # "ok" THEN r.net
  ELSE IF r.status = 401 THEN "401"
  ELSE IF r.status = 200 THEN "200"
  ELSE "other"

\* the second half of get_telemeter_json: the GET of the spec URL, whose
\* status is not looked at
FetchSpec(meter_json, reply2) ==
  LET get2 == Event("GET", "spec", StatusText(reply2)) IN
  IF reply2.net = "down"
    THEN Call(Raise("ConnectionError", "spec"), <<get2>>)
  ELSE IF reply2.net = "silent" THEN Call(Hang, <<get2>>)
  ELSE LET sj == Loads(reply2.body) IN
       IF ~Returned(sj) THEN Call(sj, <<get2>>) ELSE
       LET lim == ServiceLimit(sj.value) IN
       IF ~Returned(lim) THEN Call(lim, <<get2>>)
       ELSE Call(Return(<<meter_json, lim.value>>), <<get2>>)

\* get_telemeter_json(cookies), given the answers to its two requests
get_telemeter_json(cookies, reply1, reply2) ==
  LET get1 == Event("GET", "usage", StatusText(reply1)) IN
  IF reply1.net = "down"
    THEN Call(Raise("ConnectionError", "usage"), <<get1>>)
  ELSE IF reply1.net = "silent" THEN Call(Hang, <<get1>>)
  ELSE IF reply1.status = 401
    THEN Call(Raise("UnauthorizedException", "Request returned 401"), <<get1>>)
  ELSE LET mj == Loads(reply1.body) IN
       IF ~Returned(mj) THEN Call(mj, <<get1>>) ELSE
       LET url == SpecUrl(mj.value) IN
       IF ~Returned(url) THEN Call(url, <<get1>>) ELSE
       LET rest == FetchSpec(mj.value, reply2) IN
       Call(rest.out, <<get1>> \o rest.events)

-----------------------------------------------------------------------------
(* What the provider may answer *)

\* usage payloads the provider serves
ServedPayloads ==
  { Wrap(<<BaseUsage>>),
    Wrap(<<UsageEntry(<<DayFull1, DayFull2>>, 1000, TRUE)>>),
    Wrap(<<Drop(BaseUsage, "specurl")>>),
    Wrap(<<Drop(BaseUsage, "includedvolume")>>),
    Wrap(<<UsageEntry(<<Drop(DayFull1, "peak")>>, 1000, FALSE)>>),
    Wrap(<<>>),
    [error |-> "unavailable"] }

SpecJson(value, unit) ==
  [product |-> [characteristics |->
     [service_category_limit |-> [value |-> value, unit |-> unit]]]]

\* spec payloads the provider serves
ServedSpecs ==
  { SpecJson(<<"1", "5", "0">>, "GB"),
    SpecJson(<<"1", "5", "0", "0", "0", "0">>, "MB"),
    SpecJson(<<"2">>, "TB"),
    SpecJson(<<"7">>, "KB"),
    SpecJson(<<"n", "/", "a">>, "GB"),
    [product |-> [name |-> "x"]] }

\* answers to the usage GET sent with cookies that the provider accepts or
\* does not accept
UsageReplies(accepted) ==
  (IF accepted
     THEN { Response(200, JsonBody(p)) : p \in ServedPayloads }
          \cup { Response(500, NotJson) }
     ELSE { Response(401, NotJson) })
  \cup { NetDown, NetSilent }

\* answers to the spec GET; the session may have ended since the usage GET
SpecReplies ==
  { Response(200, JsonBody(p)) : p \in ServedSpecs }
  \cup { Response(401, NotJson), Response(401, JsonBody([error |-> "x"])),
         NetDown, NetSilent }

-----------------------------------------------------------------------------
(* State *)

VARIABLES
  ppc,            \* position of the normaliser run: "input", "done" or "off"
  meter_json,     \* the payload handed to from_json
  service_limit,  \* the service limit handed to from_json
  parsed,         \* the outcome of from_json
  run,            \* number of invocations of _main started so far
  pc,             \* position of the current invocation in _main
  args,           \* the parsed command line of the current invocation
  cookies,        \* the local variable cookies of _main
  files,          \* the working directory: file name -> content
  valid,          \* the cookie jars the provider accepts
  trace,          \* the observable steps of the current invocation, in order
  exit,           \* how the current invocation ended
  seen,           \* failures observed: failure cause with error outcome
  replies,        \* the answers a call of get_telemeter_json gets
  fetched         \* the outcome of that call, with the requests it sent

pvars == <<ppc, meter_json, service_limit, parsed>>

mvars == <<run, pc, args, cookies, files, valid, trace, exit>>

fvars == <<replies, fetched>>

vars == <<ppc, meter_json, service_limit, parsed,
          run, pc, args, cookies, files, valid, trace, exit, seen,
          replies, fetched>>

NotYet == [kind |-> "none"]

\* --cache-file values; the first is the default
CachePaths == {"./cookies.json", "alt.json"}

\* the file a path names, from the working directory
FileOf(path) == IF path = "./cookies.json" THEN "cookies.json" ELSE path

FileNames == {"cookies.json", "alt.json"}

Absent == [kind |-> "absent"]

\* a file that holds json.dumps(c)
JsonFile(c) == [kind |-> "json", cookies |-> c]

\* a file that holds something else
OtherFile == [kind |-> "text"]

\* A cookie dict is the set of the sessions whose cookies it holds: session 0
\* was stored by an earlier invocation, session r > 0 is the one the login of
\* invocation r opens. The provider accepts a request that carries the
\* cookies of a session it still holds.
NoCookies == {}

Accepted(c) == c # {} /\ c \subseteq valid

NoArgs == [cache |-> FALSE, cache_file |-> "./cookies.json"]

MainIdle ==
  /\ run = 0
  /\ pc = "idle"
  /\ args = NoArgs
  /\ cookies = NoCookies
  /\ trace = <<>>
  /\ exit = NotYet

FetchOff ==
  /\ replies = <<NetDown, NetDown>>
  /\ fetched = Call(NotYet, <<>>)

ParseOff ==
  /\ ppc = "off"
  /\ meter_json = [error |-> "unavailable"]
  /\ service_limit = Quot(0, 1)
  /\ parsed = NotYet

ParseInit ==
  /\ ppc = "input"
  /\ meter_json \in ParsePayloads
  /\ service_limit \in ServiceLimits
  /\ parsed = NotYet
  /\ MainIdle
  /\ files = [f \in FileNames |-> Absent]
  /\ valid = {}
  /\ seen = {}
  /\ FetchOff

\* Telemeter.from_json(meter_json, service_limit)
Normalize ==
  /\ ppc = "input"
  /\ parsed' = from_json(meter_json, service_limit)
  /\ ppc' = "done"
  /\ UNCHANGED <<meter_json, service_limit>>
  /\ UNCHANGED mvars
  /\ UNCHANGED <<seen, fvars>>

ParseNext == Normalize

SpecParse == ParseInit /\ [][ParseNext]_vars

-----------------------------------------------------------------------------
(* _main *)

Init ==
  /\ ParseOff
  /\ MainIdle
  /\ files \in [FileNames -> {Absent, JsonFile({0}), OtherFile}]
  /\ valid \in SUBSET {0}
  /\ seen = {}
  /\ FetchOff

IsFile(path) == files[FileOf(path)] # Absent

Count(op) == Cardinality({i \in 1..Len(trace) : trace[i].op = op})

\* the failure cause behind a raise of get_telemeter_json or from_json
FetchCause(out) ==
  IF out.exc = "UnauthorizedException" THEN "credentials"
  ELSE IF out.exc = "ConnectionError" THEN "network"
  ELSE "provider"

Failure(cause, out) == [cause |-> cause, exc |-> out.exc, arg |-> out.arg]

\* parser.parse_args(): a new invocation, once the previous one is over
Start ==
  /\ pc \in {"idle", "done", "hung"}
  /\ run < MaxRuns
  /\ run' = run + 1
  /\ \E c \in BOOLEAN, p \in CachePaths :
       args' = [cache |-> c, cache_file |-> p]
  /\ pc' = "check_cache"
  /\ cookies' = NoCookies
  /\ trace' = <<>>
  /\ exit' = NotYet
  /\ UNCHANGED <<files, valid>>
  /\ UNCHANGED <<pvars, seen, fvars>>

\* if args.cache and os.path.isfile(args.cache_file): read the cookies
CheckCache ==
  /\ pc = "check_cache"
  /\ IF args.cache /\ IsFile(args.cache_file)
       THEN LET f == files[FileOf(args.cache_file)]
                rd == Event("read", FileOf(args.cache_file), f.kind)
            IN IF f.kind = "json"
                 THEN /\ cookies' = f.cookies
                      /\ pc' = "cached_fetch"
                      /\ trace' = trace \o <<rd, Event("print", "Using cached cookies", "")>>
                      /\ exit' = exit
                 ELSE /\ cookies' = cookies
                      /\ pc' = "done"
                      /\ trace' = Append(trace, rd)
                      /\ exit' = Raise("JSONDecodeError", "cache")
       ELSE /\ pc' = "login"
            /\ UNCHANGED <<cookies, trace, exit>>
  /\ UNCHANGED <<run, args, files, valid>>
  /\ UNCHANGED <<pvars, seen, fvars>>

\* get_telemeter_json(cookies), then print(Telemeter.from_json(...)): the
\* outcome and the steps made
FetchAndPrint(reply1, reply2) ==
  LET Printed(json) ==
        LET t == from_json(json.out.value[1], json.out.value[2]) IN
        IF ~Returned(t)
          THEN Call(t, json.events \o <<Event("from_json", "", "raise")>>)
          ELSE Call(t, json.events
                       \o <<Event("from_json", "", "return"),
                            Event("print", "report", "")>>)
      got == get_telemeter_json(cookies, reply1, reply2)
      \* the call and how it ended, after the requests it sent; a call
      \* that waits for an answer has not ended
      json == IF got.out = Hang
                THEN got
                ELSE Call(got.out,
                          got.events \o <<Event("fetch", "", got.out.kind)>>)
  IN IF ~Returned(json.out) THEN json ELSE Printed(json)

\* where an invocation that ended with outcome out stops
After(out) == IF out = Hang THEN "hung" ELSE "done"

\* a variant of Caught: except Exception
CaughtAny(out) == out.kind = "raise"

\* except UnauthorizedException
Caught(out) == Raised(out, "UnauthorizedException")

\* a variant of RemovedFile: the name the cookies are written under
RemovedFileFixed == "cookies.json"

\* os.remove(args.cache_file)
RemovedFile == FileOf(args.cache_file)

\* the try block of the cached path and its except clause: a report ends
\* the invocation, UnauthorizedException removes the cache file and goes on
\* to the login, any other exception leaves _main
CachedFetch ==
  /\ pc = "cached_fetch"
  /\ \E reply1 \in UsageReplies(Accepted(cookies)), reply2 \in SpecReplies :
       \E c \in {FetchAndPrint(reply1, reply2)} :
       IF Caught(c.out)
         THEN /\ trace' = trace \o c.events
                   \o <<Event("print", "Cached cookies invalidated, removing", ""),
                        Event("remove", RemovedFile, "")>>
              /\ files' = [files EXCEPT ![RemovedFile] = Absent]
              /\ pc' = "login"
              /\ exit' = exit
         ELSE /\ trace' = trace \o c.events
              /\ files' = files
              /\ pc' = After(c.out)
              /\ exit' = c.out
  /\ UNCHANGED <<run, args, cookies, valid>>
  /\ UNCHANGED <<pvars, seen, fvars>>

\* a variant of LoginFailed: the login is tried again
LoginFailedRetry == "login"

\* a variant of LoginFailed: _main goes on without cookies
LoginFailedGoesOn == "fetch"

\* where _main is after get_telemeter_cookies raised: nothing catches the
\* exception, the invocation is over
LoginFailed == "done"

\* print("Fetching cookies"); cookies = get_telemeter_cookies(...)
Login ==
  /\ pc = "login"
  /\ \E fault \in LoginFaults :
       \E c \in {get_telemeter_cookies(fault, {run})} :
       /\ trace' = trace \o <<Event("print", "Fetching cookies", ""),
                               Event("login", "", c.out.kind)>> \o c.events
       /\ IF Returned(c.out)
            THEN /\ cookies' = c.out.value
                 /\ valid' = valid \cup c.out.value
                 /\ pc' = "write_cache"
                 /\ exit' = exit
            ELSE /\ pc' = LoginFailed
                 /\ exit' = c.out
                 /\ UNCHANGED <<cookies, valid>>
  /\ UNCHANGED <<run, args, files>>
  /\ UNCHANGED <<pvars, seen, fvars>>

\* the file the login's cookies are written to
WrittenFile == "cookies.json"

\* with open('cookies.json', 'w+') as f: f.write(json.dumps(cookies))
WriteCache ==
  /\ pc = "write_cache"
  /\ files' = [files EXCEPT ![WrittenFile] = JsonFile(cookies)]
  /\ trace' = Append(trace, Event("write", WrittenFile, ""))
  /\ pc' = "fetch"
  /\ UNCHANGED <<run, args, cookies, valid, exit>>
  /\ UNCHANGED <<pvars, seen, fvars>>

\* print("Fetching Telemeter data"), get_telemeter_json and the report,
\* outside any try block
Fetch ==
  /\ pc = "fetch"
  /\ \E reply1 \in UsageReplies(Accepted(cookies)), reply2 \in SpecReplies :
       \E c \in {FetchAndPrint(reply1, reply2)} :
       /\ trace' = trace \o <<Event("print", "Fetching Telemeter data", "")>>
                     \o c.events
       /\ pc' = After(c.out)
       /\ exit' = c.out
  /\ UNCHANGED <<run, args, cookies, files, valid>>
  /\ UNCHANGED <<pvars, seen, fvars>>

\* the provider ends a session
Expire ==
  /\ \E c \in valid : valid' = valid \ {c}
  /\ UNCHANGED <<run, pc, args, cookies, files, trace, exit>>
  /\ UNCHANGED <<pvars, seen, fvars>>

Next ==
  \/ Start
  \/ CheckCache
  \/ CachedFetch
  \/ Login
  \/ WriteCache
  \/ Fetch
  \/ Expire

Spec == Init /\ [][Next]_vars

-----------------------------------------------------------------------------
(* Failing calls side by side *)

GoodUsageReply == Response(200, JsonBody(Wrap(<<BaseUsage>>)))

GoodSpecReply == Response(200, JsonBody(SpecJson(<<"1", "5", "0">>, "GB")))

\* the answers get_telemeter_json gets when one thing goes wrong: the
\* provider rejects the cookies, the provider serves something else than the
\* code expects, or the network is down
FaultyReplies(cause) ==
  CASE cause = "credentials" ->
         { <<Response(401, NotJson), GoodSpecReply>> }
         \cup { <<GoodUsageReply, r>> : r \in {x \in SpecReplies :
                                                x.net = "ok" /\ x.status = 401} }
    [] cause = "provider" ->
         { <<r, GoodSpecReply>> : r \in {x \in UsageReplies(TRUE) :
                                           x.net = "ok" /\ x # GoodUsageReply} }
         \cup { <<GoodUsageReply, r>> : r \in {x \in SpecReplies :
                                                x.net = "ok" /\ x.status = 200} }
    [] cause = "network" ->
         { <<NetDown, GoodSpecReply>>, <<GoodUsageReply, NetDown>> }

Causes == {"credentials", "provider", "network"}

ErrInit ==
  /\ ParseOff
  /\ MainIdle
  /\ files = [f \in FileNames |-> Absent]
  /\ valid = {}
  /\ seen = {}
  /\ FetchOff

\* a call of get_telemeter_cookies that raises
FailLogin ==
  /\ Cardinality(seen) < MaxFailures
  /\ \E fault \in LoginFaults :
       \E c \in {get_telemeter_cookies(fault, {1})} :
         /\ c.out.kind = "raise"
         /\ seen' = seen \cup {Failure(FaultCause(fault), c.out)}
  /\ UNCHANGED <<pvars, mvars, fvars>>

\* a call of get_telemeter_json that raises
FailFetch ==
  /\ Cardinality(seen) < MaxFailures
  /\ \E cause \in Causes :
       \E r \in FaultyReplies(cause) :
         \E c \in {get_telemeter_json({1}, r[1], r[2])} :
           /\ c.out.kind = "raise"
           /\ seen' = seen \cup {Failure(cause, c.out)}
  /\ UNCHANGED <<pvars, mvars, fvars>>

\* a call of Telemeter.from_json that raises: the payload is not what the
\* code expects
FailParse ==
  /\ Cardinality(seen) < MaxFailures
  /\ \E p \in ServedPayloads \cup MalformedPayloads \cup
               { Wrap(<<u>>) : u \in BrokenUsages } :
       \E t \in {from_json(p, Quot(150, 1))} :
         /\ t.kind = "raise"
         /\ seen' = seen \cup {Failure("provider", t)}
  /\ UNCHANGED <<pvars, mvars, fvars>>

ErrNext == FailLogin \/ FailFetch \/ FailParse

SpecErrors == ErrInit /\ [][ErrNext]_vars

-----------------------------------------------------------------------------
(* get_telemeter_json on its own *)

FetchInit ==
  /\ ParseOff
  /\ MainIdle
  /\ files = [f \in FileNames |-> Absent]
  /\ valid = {}
  /\ seen = {}
  /\ replies \in (UsageReplies(TRUE) \cup UsageReplies(FALSE)) \X SpecReplies
  /\ fetched = Call(NotYet, <<>>)

\* get_telemeter_json(cookies) with the two answers of replies
FetchJson ==
  /\ fetched.out = NotYet
  /\ fetched' = get_telemeter_json({1}, replies[1], replies[2])
  /\ UNCHANGED <<pvars, mvars, seen, replies>>

FetchNext == FetchJson

SpecFetch == FetchInit /\ [][FetchNext]_vars

-----------------------------------------------------------------------------
(* Properties of _main, checked under Spec *)

HasEvent(op, arg, res) ==
  \E i \in 1..Len(trace) : trace[i] = Event(op, arg, res)

\* the GET requests of the invocation so far, in order
Gets == SelectSeq(trace, LAMBDA e : e.op = "GET")

Ended == pc = "done"

Reported == Ended /\ Returned(exit)

\* the invocation read cookies from the cache file and the usage GET sent
\* with them was not answered 401
CachedNot401 ==
  /\ args.cache
  /\ HasEvent("read", FileOf(args.cache_file), "json")
  /\ Len(Gets) > 0
  /\ Gets[1].res # "401"

C2_NoCacheNoFile ==
  (run > 0 /\ ~args.cache) => (Count("read") = 0 /\ Count("write") = 0)

\* C3, as stated: with caching enabled, the cookies a fresh login obtained
\* are in the file --cache-file names once they have been written.
C3_WrittenToCacheFile ==
  (args.cache /\ Count("write") > 0) =>
    files[FileOf(args.cache_file)] = JsonFile(cookies)

-----------------------------------------------------------------------------
(* Properties of the failures, checked under SpecErrors *)

\* C10, as stated: rejected credentials, a changed provider page or API and
\* an unreachable or slow network never end in the same error outcome.
C10_CausesDistinct ==
  \A a, b \in seen :
    (a.cause \in Causes /\ b.cause \in Causes /\ a.cause # b.cause) =>
      <<a.exc, a.arg>> # <<b.exc, b.arg>>

-----------------------------------------------------------------------------
(* Properties of the normaliser, checked under SpecParse *)

\* the payload has the nesting internetusage[0].availableperiods[0].usages
TopShapeOk ==
  /\ Has(meter_json, "internetusage")
  /\ Len(meter_json.internetusage) > 0
  /\ Has(meter_json.internetusage[1], "availableperiods")
  /\ Len(meter_json.internetusage[1].availableperiods) > 0
  /\ Has(meter_json.internetusage[1].availableperiods[1], "usages")

InputUsages == meter_json.internetusage[1].availableperiods[1].usages

HasUsage == TopShapeOk /\ Len(InputUsages) > 0

InputUsage == InputUsages[1]

HasTotals ==
  /\ HasUsage
  /\ Has(InputUsage, "totalusage")
  /\ Has(InputUsage.totalusage, "peak")
  /\ Has(InputUsage.totalusage, "offpeak")

HasDays ==
  /\ HasUsage
  /\ Has(InputUsage, "totalusage")
  /\ Has(InputUsage.totalusage, "dailyusages")

InputDays == InputUsage.totalusage.dailyusages

GoodStamps == {Stamp1, Stamp2, Stamp3}

\* the calendar day a well-formed timestamp of the inputs names
StampDate(s) ==
  CASE s = Stamp1 -> [year |-> 2021, month |-> 2, day |-> 1]
    [] s = Stamp2 -> [year |-> 2021, month |-> 2, day |-> 2]
    [] s = Stamp3 -> [year |-> 2021, month |-> 3, day |-> 1]

WellFormedDay(d) ==
  /\ {"date", "peak", "offpeak"} \subseteq DOMAIN d
  /\ d.date \in GoodStamps

\* the usage entry has every field from_json reads, apart from its days
WellFormedButDays ==
  /\ HasTotals
  /\ HasDays
  /\ {"periodstart", "periodend", "squeezed"} \subseteq DOMAIN InputUsage
  /\ InputUsage.periodstart \in GoodStamps
  /\ InputUsage.periodend \in GoodStamps

WellFormedUsage ==
  /\ WellFormedButDays
  /\ \A i \in 1..Len(InputDays) : WellFormedDay(InputDays[i])

ParseDone == ppc = "done"

\* x, a float of the result, is the number n / d
IsQuot(x, n, d) == x.num * d = n * x.den

C5_DaysInOrder ==
  /\ (ParseDone /\ WellFormedUsage) => Returned(parsed)
  /\ (ParseDone /\ Returned(parsed)) =>
       /\ HasDays
       /\ Len(parsed.value.days) = Len(InputDays)
       /\ \A i \in 1..Len(InputDays) :
            /\ WellFormedDay(InputDays[i])
            /\ parsed.value.days[i].date = StampDate(InputDays[i].date)
            /\ parsed.value.days[i].peak_usage.num = InputDays[i].peak
            /\ parsed.value.days[i].offpeak_usage.num = InputDays[i].offpeak

\* C5 witness: a Telemeter returned for an array of at least two different
\* days
C5_Witness ==
  /\ ParseDone
  /\ Returned(parsed)
  /\ HasDays
  /\ Len(InputDays) >= 2
  /\ InputDays[1] # InputDays[2]
  /\ Len(parsed.value.days) = Len(InputDays)

\* the number of product results a call of from_json hands back: its return
\* value is one Telemeter
ProductResults == IF Returned(parsed) THEN 1 ELSE 0

OnlyOptionalMissing ==
  /\ WellFormedButDays
  /\ \A i \in 1..Len(InputDays) :
       /\ Has(InputDays[i], "date")
       /\ InputDays[i].date \in GoodStamps
  /\ \E i \in 1..Len(InputDays) :
       ~Has(InputDays[i], "peak") \/ ~Has(InputDays[i], "offpeak")

\* n when the key is present and holds n, 0 when the key is absent
OrZero(d, k) == IF Has(d, k) THEN d[k] ELSE 0

\* C7, as stated: a daily entry without peak or offpeak does not make
\* from_json raise; its UsageDay has 0 for the missing field and the other
\* days are produced as well.
C7_MissingIsZero ==
  (ParseDone /\ OnlyOptionalMissing) =>
    /\ Returned(parsed)
    /\ Len(parsed.value.days) = Len(InputDays)
    /\ \A i \in 1..Len(InputDays) :
         /\ parsed.value.days[i].peak_usage.num = OrZero(InputDays[i], "peak")
         /\ parsed.value.days[i].offpeak_usage.num
              = OrZero(InputDays[i], "offpeak")

\* the required field a payload lacks: "none" when it lacks none
MissingRequired ==
  IF ~Has(meter_json, "internetusage") \/ Len(meter_json.internetusage) = 0
    THEN "internetusage"
  ELSE IF \/ ~Has(meter_json.internetusage[1], "availableperiods")
          \/ Len(meter_json.internetusage[1].availableperiods) = 0
    THEN "availableperiods"
  ELSE IF ~HasUsage THEN "usages"
  ELSE IF ~Has(InputUsage, "producttype") THEN "producttype"
  ELSE IF ~Has(InputUsage, "periodstart") THEN "periodstart"
  ELSE IF ~Has(InputUsage, "periodend") THEN "periodend"
  ELSE IF ~HasDays THEN "dailyusages"
  ELSE "none"

\* the one error from_json raises by itself
DataShapeError == "RuntimeError"

\* C8, as stated: a payload that lacks a required field, or whose top-level
\* shape is malformed, ends from_json in the one data-shape error, which
\* names the missing field, and in no other error.
C8_OneShapeError ==
  (ParseDone /\ MissingRequired # "none") =>
    /\ Raised(parsed, DataShapeError)
    /\ parsed.arg = MissingRequired

\* the usage entry has total-usage style fields only
FlatRateInput ==
  /\ HasDays
  /\ ~Has(InputUsage.totalusage, "peak")
  /\ ~Has(InputUsage.totalusage, "offpeak")
  /\ {"periodstart", "periodend", "squeezed"} \subseteq DOMAIN InputUsage

\* C9, as stated: an entry with total-usage style fields only is normalised
\* to peak_usage = offpeak_usage = 0 and total_usage = the sum of peak,
\* offpeak, included volume used and extended volume used.
C9_FlatRateTotal ==
  (ParseDone /\ FlatRateInput) =>
    /\ Returned(parsed)
    /\ parsed.value.peak_usage.num = 0
    /\ parsed.value.offpeak_usage.num = 0
    /\ Has(parsed.value, "total_usage")
    /\ parsed.value.total_usage
         = OrZero(InputUsage.totalusage, "peak")
           + OrZero(InputUsage.totalusage, "offpeak")
           + OrZero(InputUsage.totalusage, "includedvolume")
           + OrZero(InputUsage.totalusage, "extendedvolume")

-----------------------------------------------------------------------------
(* Timeouts of the network calls, checked under Spec *)

\* the requests of the invocation that no peer answered
Unanswered == { i \in 1..Len(trace) : trace[i].op = "GET" /\ trace[i].res = "silent" }

\* C11: every network call is bounded. No invocation is left waiting for an
\* answer, and an invocation that sent a request no peer answered has ended
\* with an error that is not the authentication error.
C11_CallsBounded ==
  /\ pc # "hung"
  /\ Unanswered # {} =>
       /\ Ended
       /\ exit.kind = "raise"
       /\ exit.exc # "UnauthorizedException"

-----------------------------------------------------------------------------
(* Properties of get_telemeter_json, checked under SpecFetch *)

FetchDone == fetched.out # NotYet

\* the usage payload the first request was answered with, when it was
\* answered 200 with JSON
UsageServed ==
  /\ replies[1].net = "ok"
  /\ replies[1].status = 200
  /\ replies[1].body.kind = "json"

\* the payload has a first usage entry and that entry has no included volume
NoIncludedVolume ==
  /\ UsageServed
  /\ Returned(CurrentUsage(replies[1].body.value))
  /\ ~Has(CurrentUsage(replies[1].body.value).value, "includedvolume")

SpecGetSent ==
  \E i \in 1..Len(fetched.events) :
    fetched.events[i].op = "GET" /\ fetched.events[i].arg = "spec"

\* the limit the spec payload declares, when it declares one: a number and
\* a unit
DeclaresLimit ==
  /\ SpecGetSent
  /\ replies[2].net = "ok"
  /\ replies[2].status = 200
  /\ replies[2].body.kind = "json"
  /\ Returned(ServiceLimit(replies[2].body.value))

DeclaredLimit ==
  replies[2].body.value.product.characteristics.service_category_limit

\* one unit in GB, as the quotient num / den
UnitInGB(unit) ==
  CASE unit = "KB" -> Quot(1, 1000000)
    [] unit = "MB" -> Quot(1, 1000)
    [] unit = "GB" -> Quot(1, 1)
    [] unit = "TB" -> Quot(1000, 1)

\* the quotient q is n times the quotient u
IsTimes(q, n, u) == q.num * u.den = n * u.num * q.den

\* C12: whatever unit the spec payload declares, the service_limit that
\* get_telemeter_json returns is the declared volume in GB, and the spec
\* GET is sent whenever the usage payload carries no included volume.
C12_LimitInOneUnit ==
  FetchDone =>
    /\ DeclaresLimit =>
         /\ Returned(fetched.out)
         /\ IsTimes(fetched.out.value[2],
                    IntOf(DeclaredLimit.value).value,
                    UnitInGB(DeclaredLimit.unit))
    /\ NoIncludedVolume => SpecGetSent

-----------------------------------------------------------------------------
(* Retries and the order of the steps of _main, checked under Spec *)

Steps == 1..Len(trace)

\* the calls of get_telemeter_json so far: each starts with the usage GET
JsonCalls == { i \in Steps : trace[i].op = "GET" /\ trace[i].arg = "usage" }

\* the steps at which a call of get_telemeter_cookies, get_telemeter_json
\* or Telemeter.from_json raised
FailedSteps ==
  { i \in Steps : trace[i].op \in {"login", "fetch", "from_json"}
                  /\ trace[i].res = "raise" }

\* step i is the get_telemeter_json call made with cached cookies ending
\* with the UnauthorizedException of a usage GET answered 401
CachedRejectedAt(i) ==
  /\ i > 1
  /\ trace[i] = Event("fetch", "", "raise")
  /\ trace[i - 1] = Event("GET", "usage", "401")
  /\ \A j \in 1..i : trace[j].op # "login"
  /\ HasEvent("read", FileOf(args.cache_file), "json")

\* the invocation has ended with an error
EndedWithError == Ended /\ exit.kind = "raise"

\* C13, as stated: a failed step ends the invocation at once, the login is
\* called at most once and get_telemeter_json is not called again after it
\* raised.
C13_NeverAgain ==
  /\ Count("login") <= 1
  /\ \A i \in FailedSteps : EndedWithError
  /\ \A i \in FailedSteps : trace[i].op = "fetch" => \A j \in JsonCalls : j < i

\* C13, amended: the login is called at most once and get_telemeter_json at
\* most twice; the one failure _main goes on after is the 401 of the call
\* made with cached cookies, followed by one login and, when that returned
\* cookies, one more call; every other failed step is the last step of an
\* invocation that ended with an error.
C13_OneFallback ==
  /\ Count("login") <= 1
  /\ Cardinality(JsonCalls) <= 2
  /\ \A i \in FailedSteps :
       \/ CachedRejectedAt(i)
       \/ /\ EndedWithError
          /\ \A j \in Steps : j > i => trace[j].op \in {"page", "submit", "driver"}
          /\ \A j \in Steps : j > i => trace[i].op = "login"
  /\ Cardinality(JsonCalls) = 2 =>
       /\ \E i \in FailedSteps : CachedRejectedAt(i)
       /\ HasEvent("login", "", "return")
       /\ \A i \in FailedSteps : CachedRejectedAt(i) =>
            Cardinality({j \in JsonCalls : j > i}) = 1

\* the fallback was taken and the second call failed: the invocation ended
C13_Witness ==
  /\ Cardinality(JsonCalls) = 2
  /\ EndedWithError
  /\ Cardinality(FailedSteps) = 2

-----------------------------------------------------------------------------
(* Status 401, checked under SpecFetch *)

\* the requests the call sent that were answered 401
Sent401 ==
  { i \in 1..Len(fetched.events) :
      fetched.events[i].op = "GET" /\ fetched.events[i].res = "401" }

\* C14: a call of get_telemeter_json in which a request was answered 401,
\* the usage GET or the spec GET, raises UnauthorizedException.
C14_401IsUnauthorized ==
  (FetchDone /\ Sent401 # {}) => Raised(fetched.out, "UnauthorizedException")

-----------------------------------------------------------------------------
(* Order of the steps, checked under Spec *)

\* step i belongs to the cached path: no login was started before it
OnCachedPath(i) == \A j \in 1..i : trace[j].op # "login"

\* C15: authenticate, then fetch, then normalise. from_json is applied only
\* right after a get_telemeter_json call of this invocation that returned;
\* a get_telemeter_json call not made with cached cookies comes after a
\* login that returned cookies, and none comes after a login that raised;
\* the report is printed at most once.
C15_Ordering ==
  /\ \A i \in Steps : trace[i].op = "from_json" =>
       /\ i > 1
       /\ trace[i - 1] = Event("fetch", "", "return")
  /\ \A i \in JsonCalls :
       \/ /\ OnCachedPath(i)
          /\ HasEvent("read", FileOf(args.cache_file), "json")
       \/ \E j \in 1..i : trace[j] = Event("login", "", "return")
  /\ \A i \in JsonCalls : \A j \in 1..i : trace[j] # Event("login", "", "raise")
  /\ Cardinality({i \in Steps : trace[i] = Event("print", "report", "")}) <= 1
  /\ \A i \in Steps : trace[i] = Event("print", "report", "") =>
       /\ i > 1
       /\ trace[i - 1] = Event("from_json", "", "return")

\* a fresh login, then the fetch, then the report
C15_Witness ==
  /\ Reported
  /\ HasEvent("login", "", "return")
  /\ HasEvent("from_json", "", "return")
  /\ HasEvent("print", "report", "")

-----------------------------------------------------------------------------
(* The cache file after rejected cookies, checked under Spec *)

\* the invocation's cached cookies were rejected: the call made with them
\* ended with UnauthorizedException
CacheRejected == \E i \in FailedSteps : CachedRejectedAt(i)

\* the cache file of the invocation
CacheFile == files[FileOf(args.cache_file)]

\* the part of C16 that holds: once the call made with cached cookies
\* raised UnauthorizedException (usage GET answered 401), the cache file is
\* removed before any further call (only the notice is printed in between),
\* then the login is made; from the removal on the cache file is absent or
\* holds the cookies of this invocation's login.
UsageRejectedRemoved ==
  CacheRejected =>
    /\ \A i \in FailedSteps : CachedRejectedAt(i) =>
         /\ Len(trace) >= i + 2
         /\ trace[i + 1] = Event("print", "Cached cookies invalidated, removing", "")
         /\ trace[i + 2] = Event("remove", FileOf(args.cache_file), "")
    /\ \/ CacheFile = Absent
       \/ /\ CacheFile = JsonFile({run})
          /\ HasEvent("login", "", "return")
    /\ Count("login") = 0 => pc = "login" /\ cookies # {run}
    /\ Ended => Count("login") = 1
    /\ Cardinality(JsonCalls) = 2 => HasEvent("login", "", "return")

\* a request sent with the cached cookies was answered 401 and the call of
\* get_telemeter_json that sent it has ended
CachedAnswered401 ==
  /\ HasEvent("read", FileOf(args.cache_file), "json")
  /\ \E i \in Steps :
       /\ trace[i].op = "GET"
       /\ trace[i].res = "401"
       /\ OnCachedPath(i)
       /\ \E j \in Steps : j > i /\ trace[j].op = "fetch"

\* C16: once the cached cookies were rejected with 401, the cache file has
\* been removed and does not hold the rejected cookies any more, and the
\* invocation does not end without a fresh login.
C16_RejectedRemoved ==
  CachedAnswered401 =>
    /\ HasEvent("remove", FileOf(args.cache_file), "")
    /\ CacheFile = Absent \/ CacheFile = JsonFile({run})
    /\ Ended => Count("login") = 1

-----------------------------------------------------------------------------
(* The cache file after a failed fresh session, checked under Spec *)

\* the login returned cookies and the usage GET sent with them afterwards
\* was answered 401
FreshRejected ==
  \E i \in JsonCalls :
    /\ trace[i].res = "401"
    /\ \E j \in 1..i : trace[j] = Event("login", "", "return")

\* C17: when the login returned cookies and the fetch made with them was
\* answered 401, the invocation ends with UnauthorizedException and no file
\* holds the cookies of the failed session.
C17_NoFailedSessionKept ==
  (Ended /\ FreshRejected) =>
    /\ Raised(exit, "UnauthorizedException")
    /\ \A f \in FileNames : files[f] # JsonFile(cookies)

-----------------------------------------------------------------------------
(* The browser driver, checked under Spec *)

DriverStarts == { i \in Steps : trace[i] = Event("driver", "firefox", "started") }

DriverQuits == { i \in Steps : trace[i] = Event("driver", "firefox", "quit") }

\* the steps made in the browser
BrowserSteps == { i \in Steps : trace[i].op \in {"page", "submit"} }

\* the call of get_telemeter_cookies has been made
LoginCalled == Count("login") > 0

\* C18: a driver that get_telemeter_cookies started is quit exactly once,
\* after the last browser step, however the call ended: with cookies, with
\* the RuntimeError of a timeout or with any other exception. When the call
\* has been made and no driver was started, the driver's start is what
\* failed.
C18_DriverQuitOnce ==
  /\ Cardinality(DriverStarts) <= 1
  /\ \A s \in DriverStarts :
       /\ Cardinality({q \in DriverQuits : q > s}) = 1
       /\ \A b \in BrowserSteps : s < b
  /\ \A q \in DriverQuits :
       /\ \E s \in DriverStarts : s < q
       /\ \A b \in BrowserSteps : b < q
  /\ (LoginCalled /\ DriverStarts = {}) =>
       /\ BrowserSteps = {}
       /\ exit = Raise("WebDriverException", "firefox")

\* a login step other than a wait failed and the driver was quit
C18_Witness ==
  /\ Raised(exit, "NoSuchElementException")
  /\ DriverStarts # {}
  /\ DriverQuits # {}

=============================================================================
